---- MODULE Spec2Model ----
(***************************************************************************)
(* Model of Task6/files/app.py: a single Flask route "/" (GET, POST) that  *)
(* parses form fields, opens a psycopg connection per POST, calls          *)
(* generate_fake_users once and renders a template.                        *)
(*                                                                         *)
(* Text (form values, locale, action) is a sequence of one-character       *)
(* strings, so that int() can be modelled by what it does to the text.     *)
(***************************************************************************)
EXTENDS Integers, Sequences, FiniteSets, TLC

VARIABLES
    pc,        \* per worker: position of the request handler
    method,    \* per worker: request.method
    form,      \* per worker: request.form, a function from the field names present to text
    loc,       \* per worker: the locals locale, seed, batch_size, batch_index, users
    conn,      \* per worker: the local variable conn bound by the with statement
    error,     \* per worker: the exception that ended the request, if any
    response,  \* per worker: <<>> or <<context passed to render_template>>
    calls,     \* per worker: argument tuples of the cur.execute calls of this request
    nconnect,  \* per worker: number of get_db_conn() calls of this request
    open,      \* connections open in the process
    owner,     \* per connection: <<>> or <<the worker whose request opened it>>
    used,      \* per connection: the workers that executed a query on it since it was opened
    dbFailed   \* whether a request that has finished ended with a database error

vars ==
    <<pc, method, form, loc, conn, error, response, calls, nconnect, open, owner, used, dbFailed>>

----------------------------------------------------------------------------
(* Bounds of the model *)

MaxStrLen == 2      \* longest text submitted for a numeric field
NumWorkers == 2     \* requests handled concurrently in SpecConc

----------------------------------------------------------------------------
(* Text *)

Alphabet == {"2", "-", "a"}

RECURSIVE TextsOfLen(_)
TextsOfLen(n) ==
    IF n = 0 THEN {<<>>}
    ELSE {Append(t, c) : t \in TextsOfLen(n - 1), c \in Alphabet}

Texts == UNION {TextsOfLen(n) : n \in 0..MaxStrLen}

EN_US == <<"e", "n", "_", "U", "S">>
FR_FR == <<"f", "r", "_", "F", "R">>
GENERATE == <<"g", "e", "n", "e", "r", "a", "t", "e">>
NEXT == <<"n", "e", "x", "t">>
PREV == <<"p", "r", "e", "v">>

Digits == {"0", "1", "2", "3", "4", "5", "6", "7", "8", "9"}
Whitespace == {" "}

DigitVal(c) ==
    CASE c = "0" -> 0 [] c = "1" -> 1 [] c = "2" -> 2 [] c = "3" -> 3 [] c = "4" -> 4
      [] c = "5" -> 5 [] c = "6" -> 6 [] c = "7" -> 7 [] c = "8" -> 8 [] c = "9" -> 9

RECURSIVE LStrip(_)
LStrip(s) == IF s # <<>> /\ Head(s) \in Whitespace THEN LStrip(Tail(s)) ELSE s

RECURSIVE RStrip(_)
RStrip(s) ==
    IF s # <<>> /\ s[Len(s)] \in Whitespace THEN RStrip(SubSeq(s, 1, Len(s) - 1)) ELSE s

Strip(s) == RStrip(LStrip(s))

Unsigned(t) == IF t # <<>> /\ Head(t) \in {"+", "-"} THEN Tail(t) ELSE t

\* the digits part of an integer literal: digits, single underscores only between digits
ValidBody(u) ==
    /\ u # <<>>
    /\ \A i \in 1..Len(u) : u[i] \in Digits \cup {"_"}
    /\ u[1] \in Digits
    /\ u[Len(u)] \in Digits
    /\ \A i \in 1..(Len(u) - 1) : ~(u[i] = "_" /\ u[i + 1] = "_")

RECURSIVE DecVal(_)
DecVal(u) ==
    IF u = <<>> THEN 0
    ELSE LET init == SubSeq(u, 1, Len(u) - 1)
             last == u[Len(u)]
         IN  IF last = "_" THEN DecVal(init) ELSE 10 * DecVal(init) + DigitVal(last)

\* int(s) for a str s: [ok |-> FALSE] stands for ValueError.
\* PyIntLenient: a conversion that yields 0 for text that is no integer literal.
PyIntLenient(s) ==
    LET t == Strip(s)
        u == Unsigned(t)
    IN  IF ValidBody(u)
        THEN [ok |-> TRUE, val |-> IF Head(t) = "-" THEN 0 - DecVal(u) ELSE DecVal(u)]
        ELSE [ok |-> TRUE, val |-> 0]

PyInt(s) ==
    LET t == Strip(s)
        u == Unsigned(t)
    IN  IF ValidBody(u)
        THEN [ok |-> TRUE, val |-> IF Head(t) = "-" THEN 0 - DecVal(u) ELSE DecVal(u)]
        ELSE [ok |-> FALSE, val |-> 0]

----------------------------------------------------------------------------
(* request.form *)

FieldNames == {"locale", "seed", "batch_size", "batch_index", "action"}

\* an optional value: <<>> (field absent) or <<v>>
Opt(S) == {<<>>} \cup {<<v>> : v \in S}

MkForm(l, s, b, i, a) ==
    LET o == [locale |-> l, seed |-> s, batch_size |-> b, batch_index |-> i, action |-> a]
    IN  [k \in {n \in FieldNames : o[n] # <<>>} |-> o[k][1]]

EmptyForm == MkForm(<<>>, <<>>, <<>>, <<>>, <<>>)

\* request.form.get(name, default) for a text-valued default
FormGet(f, name, default) == IF name \in DOMAIN f THEN f[name] ELSE default

\* int(request.form.get(name, default)) for an int default: int(default) = default
FormGetInt(f, name, default) ==
    IF name \in DOMAIN f THEN PyInt(f[name]) ELSE [ok |-> TRUE, val |-> default]

----------------------------------------------------------------------------
(* index(): locals and form parsing, lines 23-39 *)

DefaultLocals ==
    [locale |-> EN_US, seed |-> 123, batch_size |-> 10, batch_index |-> 0, users |-> <<>>]

\* NavigateKeep: the else branch keeps the submitted batch_index instead of resetting it.
NavigateKeep(f, action) ==
    LET r == FormGetInt(f, "batch_index", 0)
    IN  IF action = NEXT THEN [ok |-> r.ok, val |-> r.val + 1] ELSE r

\* NavigateNoInc: the next branch passes the submitted batch_index through unchanged.
NavigateNoInc(f, action) ==
    IF action = NEXT THEN FormGetInt(f, "batch_index", 0) ELSE [ok |-> TRUE, val |-> 0]

\* NavigateEager: batch_index is converted before the action is looked at.
NavigateEager(f, action) ==
    LET r == FormGetInt(f, "batch_index", 0)
    IN  IF ~r.ok THEN r
        ELSE IF action = NEXT THEN [ok |-> TRUE, val |-> r.val + 1]
        ELSE [ok |-> TRUE, val |-> 0]

\* lines 36-39
Navigate(f, action) ==
    IF action = NEXT
    THEN LET r == FormGetInt(f, "batch_index", 0)
         IN  [ok |-> r.ok, val |-> r.val + 1]
    ELSE [ok |-> TRUE, val |-> 0]

\* lines 30-39: the locals after the POST branch has read the form, or the locals
\* at the line whose int() raised ValueError (ok = FALSE)
ParsePost(f) ==
    LET l1 == [DefaultLocals EXCEPT !.locale = FormGet(f, "locale", @)]
        s  == FormGetInt(f, "seed", l1.seed)
    IN  IF ~s.ok THEN [ok |-> FALSE, loc |-> l1]
        ELSE
        LET l2 == [l1 EXCEPT !.seed = s.val]
            b  == FormGetInt(f, "batch_size", l2.batch_size)
        IN  IF ~b.ok THEN [ok |-> FALSE, loc |-> l2]
            ELSE
            LET l3 == [l2 EXCEPT !.batch_size = b.val]
                action == FormGet(f, "action", GENERATE)
                n  == Navigate(f, action)
            IN  IF ~n.ok THEN [ok |-> FALSE, loc |-> l3]
                ELSE [ok |-> TRUE, loc |-> [l3 EXCEPT !.batch_index = n.val]]

\* ExecuteArgsSwapped: seed and batch_size bound in the wrong order.
ExecuteArgsSwapped(l) == <<l.locale, l.batch_size, l.seed, l.batch_index>>

\* line 45: the parameters bound to the query
ExecuteArgs(l) == <<l.locale, l.seed, l.batch_size, l.batch_index>>

\* lines 49-56: the context passed to render_template
RenderContext(l) ==
    [locale |-> l.locale, seed |-> l.seed, batch_size |-> l.batch_size,
     batch_index |-> l.batch_index, users |-> l.users]

----------------------------------------------------------------------------
(* Database connections *)

ModuleConn == 0                        \* the connection of line 16
ConnIds == 1..(NumWorkers + 1)         \* identities of the connections of get_db_conn()
AllConns == {ModuleConn} \cup ConnIds

FreshConn(op) == CHOOSE c \in ConnIds \ op : \A d \in ConnIds \ op : c <= d

\* WithExitLeakOnError: the connection is closed on the normal path only.
WithExitLeakOnError(op, c, raised) == IF raised THEN op ELSE op \ {c}

\* line 41, leaving the with block: psycopg's Connection.__exit__ closes the
\* connection, whether the block raised or not
WithExit(op, c, raised) == op \ {c}

\* rows generate_fake_users may return; their content is opaque to the handler
RowLists == {<<>>, <<"row1">>, <<"row1", "row2">>}

----------------------------------------------------------------------------
(* The handler, one action per step of index() *)

Workers == DOMAIN pc

Methods == {"GET", "POST"}

\* a request arrives at an idle worker and index() is entered (lines 22-27)
Receive(w, m, f) ==
    /\ pc[w] = "idle"
    /\ pc' = [pc EXCEPT ![w] = "received"]
    /\ method' = [method EXCEPT ![w] = m]
    /\ form' = [form EXCEPT ![w] = f]
    /\ loc' = [loc EXCEPT ![w] = DefaultLocals]
    /\ UNCHANGED <<dbFailed, conn, error, response, calls, nconnect, open, owner, used>>

\* SkipPostUnlessForm: the branch is taken whenever form data came with the request.
SkipPostUnlessForm(w) ==
    /\ pc[w] = "received"
    /\ method[w] # "POST"
    /\ LET r == IF form[w] = EmptyForm THEN [ok |-> TRUE, loc |-> loc[w]]
                ELSE ParsePost(form[w])
       IN  /\ loc' = [loc EXCEPT ![w] = r.loc]
           /\ pc' = [pc EXCEPT ![w] =
                        IF ~r.ok THEN "failed"
                        ELSE IF form[w] = EmptyForm THEN "render" ELSE "connect"]
           /\ error' = [error EXCEPT ![w] = IF r.ok THEN @ ELSE "ValueError"]
    /\ UNCHANGED <<dbFailed, method, form, conn, response, calls, nconnect, open, owner, used>>

\* line 29, condition false: the POST branch is skipped
SkipPost(w) ==
    /\ pc[w] = "received"
    /\ method[w] # "POST"
    /\ pc' = [pc EXCEPT ![w] = "render"]
    /\ UNCHANGED <<dbFailed, method, form, loc, conn, error, response, calls, nconnect, open, owner, used>>

\* lines 29-39
ParseForm(w) ==
    /\ pc[w] = "received"
    /\ method[w] = "POST"
    /\ LET r == ParsePost(form[w])
       IN  /\ loc' = [loc EXCEPT ![w] = r.loc]
           /\ pc' = [pc EXCEPT ![w] = IF r.ok THEN "connect" ELSE "failed"]
           /\ error' = [error EXCEPT ![w] = IF r.ok THEN @ ELSE "ValueError"]
    /\ UNCHANGED <<dbFailed, method, form, conn, response, calls, nconnect, open, owner, used>>

\* line 41: get_db_conn() returns a new connection and the with block is entered
Connect(w) ==
    /\ pc[w] = "connect"
    /\ ConnIds \ open # {}
    /\ LET c == FreshConn(open)
       IN  /\ open' = open \cup {c}
           /\ owner' = [owner EXCEPT ![c] = <<w>>]
           /\ used' = [used EXCEPT ![c] = {}]
           /\ conn' = [conn EXCEPT ![w] = <<c>>]
    /\ nconnect' = [nconnect EXCEPT ![w] = @ + 1]
    /\ pc' = [pc EXCEPT ![w] = "cursor"]
    /\ UNCHANGED <<dbFailed, method, form, loc, error, response, calls>>

\* ConnectFailRetry: a failed connection attempt is tried once more.
ConnectFailRetry(w) ==
    /\ pc[w] = "connect"
    /\ nconnect' = [nconnect EXCEPT ![w] = @ + 1]
    /\ pc' = [pc EXCEPT ![w] = IF nconnect[w] = 0 THEN "connect" ELSE "failed"]
    /\ error' = [error EXCEPT ![w] = IF nconnect[w] = 0 THEN @ ELSE "DatabaseError"]
    /\ UNCHANGED <<dbFailed, method, form, loc, conn, response, calls, open, owner, used>>

\* line 41: psycopg.connect raises; no connection exists, the exception leaves index()
ConnectFail(w) ==
    /\ pc[w] = "connect"
    /\ nconnect' = [nconnect EXCEPT ![w] = @ + 1]
    /\ pc' = [pc EXCEPT ![w] = "failed"]
    /\ error' = [error EXCEPT ![w] = "DatabaseError"]
    /\ UNCHANGED <<dbFailed, method, form, loc, conn, response, calls, open, owner, used>>

\* an exception raised inside the with blocks of lines 41-47 unwinds through
\* Connection.__exit__ and leaves index()
Raise(w) ==
    /\ open' = WithExit(open, conn[w][1], TRUE)
    /\ owner' = [c \in AllConns |-> IF c \in open' THEN owner[c] ELSE <<>>]
    /\ used' = [c \in AllConns |-> IF c \in open' THEN used[c] ELSE {}]
    /\ pc' = [pc EXCEPT ![w] = "failed"]
    /\ error' = [error EXCEPT ![w] = "DatabaseError"]

\* line 42: conn.cursor(row_factory=dict_row)
OpenCursor(w) ==
    /\ pc[w] = "cursor"
    /\ pc' = [pc EXCEPT ![w] = "execute"]
    /\ UNCHANGED <<dbFailed, method, form, loc, conn, error, response, calls, nconnect, open, owner, used>>

CursorFail(w) ==
    /\ pc[w] = "cursor"
    /\ Raise(w)
    /\ UNCHANGED <<dbFailed, method, form, loc, conn, response, calls, nconnect>>

\* lines 43-46: cur.execute on the request's connection
Execute(w) ==
    /\ pc[w] = "execute"
    /\ calls' = [calls EXCEPT ![w] = Append(@, ExecuteArgs(loc[w]))]
    /\ used' = [used EXCEPT ![conn[w][1]] = @ \cup {w}]
    /\ pc' = [pc EXCEPT ![w] = "fetch"]
    /\ UNCHANGED <<dbFailed, method, form, loc, conn, error, response, nconnect, open, owner>>

\* lines 43-46: the query is sent and fails
ExecuteFail(w) ==
    /\ pc[w] = "execute"
    /\ calls' = [calls EXCEPT ![w] = Append(@, ExecuteArgs(loc[w]))]
    /\ Raise(w)
    /\ UNCHANGED <<dbFailed, method, form, loc, conn, response, nconnect>>

\* line 47: users = cur.fetchall()
Fetch(w) ==
    /\ pc[w] = "fetch"
    /\ \E rows \in RowLists : loc' = [loc EXCEPT ![w].users = rows]
    /\ pc' = [pc EXCEPT ![w] = "exit"]
    /\ UNCHANGED <<dbFailed, method, form, conn, error, response, calls, nconnect, open, owner, used>>

FetchFail(w) ==
    /\ pc[w] = "fetch"
    /\ Raise(w)
    /\ UNCHANGED <<dbFailed, method, form, loc, conn, response, calls, nconnect>>

\* lines 42 and 41, normal exit of both with blocks
ExitWith(w) ==
    /\ pc[w] = "exit"
    /\ open' = WithExit(open, conn[w][1], FALSE)
    /\ owner' = [c \in AllConns |-> IF c \in open' THEN owner[c] ELSE <<>>]
    /\ used' = [c \in AllConns |-> IF c \in open' THEN used[c] ELSE {}]
    /\ pc' = [pc EXCEPT ![w] = "render"]
    /\ UNCHANGED <<dbFailed, method, form, loc, conn, error, response, calls, nconnect>>

\* lines 49-56
Render(w) ==
    /\ pc[w] = "render"
    /\ response' = [response EXCEPT ![w] = <<RenderContext(loc[w])>>]
    /\ pc' = [pc EXCEPT ![w] = "rendered"]
    /\ UNCHANGED <<dbFailed, method, form, loc, conn, error, calls, nconnect, open, owner, used>>

\* the response (or the error) has been sent; the frame of index() is gone and
\* the worker takes the next request
Finish(w) ==
    /\ pc[w] \in {"rendered", "failed"}
    /\ pc' = [pc EXCEPT ![w] = "idle"]
    /\ method' = [method EXCEPT ![w] = "none"]
    /\ form' = [form EXCEPT ![w] = EmptyForm]
    /\ loc' = [loc EXCEPT ![w] = DefaultLocals]
    /\ conn' = [conn EXCEPT ![w] = <<>>]
    /\ error' = [error EXCEPT ![w] = "none"]
    /\ response' = [response EXCEPT ![w] = <<>>]
    /\ calls' = [calls EXCEPT ![w] = <<>>]
    /\ nconnect' = [nconnect EXCEPT ![w] = 0]
    /\ dbFailed' = (dbFailed \/ error[w] = "DatabaseError")
    /\ UNCHANGED <<open, owner, used>>

----------------------------------------------------------------------------
(* Specifications *)

\* the state after the module has been imported (lines 1-19), with the workers W idle
InitWith(W) ==
    /\ pc = [w \in W |-> "idle"]
    /\ method = [w \in W |-> "none"]
    /\ form = [w \in W |-> EmptyForm]
    /\ loc = [w \in W |-> DefaultLocals]
    /\ conn = [w \in W |-> <<>>]
    /\ error = [w \in W |-> "none"]
    /\ response = [w \in W |-> <<>>]
    /\ calls = [w \in W |-> <<>>]
    /\ nconnect = [w \in W |-> 0]
    /\ open = {ModuleConn}
    /\ owner = [c \in AllConns |-> <<>>]
    /\ used = [c \in AllConns |-> {}]
    /\ dbFailed = FALSE

LocaleTexts == {FR_FR}
ActionTexts == {NEXT, PREV}

\* a few requests: no field, every field well-formed with action next, a seed that
\* is no number
SampleForms ==
    { EmptyForm,
      MkForm(<<FR_FR>>, <<<<"2">>>>, <<<<"2", "2">>>>, <<<<"2">>>>, <<NEXT>>),
      MkForm(<<>>, <<<<"a">>>>, <<>>, <<>>, <<GENERATE>>) }

\* a POST with any combination of present and absent form fields
ReceivePost(w) ==
    /\ pc[w] = "idle"
    /\ \E l \in Opt(LocaleTexts), s \in Opt(Texts), b \in Opt(Texts),
          i \in Opt(Texts), a \in Opt(ActionTexts) :
           Receive(w, "POST", MkForm(l, s, b, i, a))

\* a GET; form data sent along with it is not looked at by index()
ReceiveGet(w) ==
    /\ pc[w] = "idle"
    /\ \E f \in SampleForms : Receive(w, "GET", f)

\* one worker handling one request after the other
Init == InitWith({1})

Next ==
    \/ \E w \in Workers : ReceivePost(w)
    \/ \E w \in Workers : ReceiveGet(w)
    \/ \E w \in Workers : SkipPost(w)
    \/ \E w \in Workers : ParseForm(w)
    \/ \E w \in Workers : Connect(w)
    \/ \E w \in Workers : ConnectFail(w)
    \/ \E w \in Workers : OpenCursor(w)
    \/ \E w \in Workers : CursorFail(w)
    \/ \E w \in Workers : Execute(w)
    \/ \E w \in Workers : ExecuteFail(w)
    \/ \E w \in Workers : Fetch(w)
    \/ \E w \in Workers : FetchFail(w)
    \/ \E w \in Workers : ExitWith(w)
    \/ \E w \in Workers : Render(w)
    \/ \E w \in Workers : Finish(w)

Spec == Init /\ [][Next]_vars

\* several workers at once, each taking requests from the sample
ReceiveConc(w) ==
    /\ pc[w] = "idle"
    /\ \E m \in Methods, f \in SampleForms : Receive(w, m, f)

InitConc == InitWith(1..NumWorkers)

NextConc ==
    \/ \E w \in Workers : ReceiveConc(w)
    \/ \E w \in Workers : SkipPost(w)
    \/ \E w \in Workers : ParseForm(w)
    \/ \E w \in Workers : Connect(w)
    \/ \E w \in Workers : ConnectFail(w)
    \/ \E w \in Workers : OpenCursor(w)
    \/ \E w \in Workers : CursorFail(w)
    \/ \E w \in Workers : Execute(w)
    \/ \E w \in Workers : ExecuteFail(w)
    \/ \E w \in Workers : Fetch(w)
    \/ \E w \in Workers : FetchFail(w)
    \/ \E w \in Workers : ExitWith(w)
    \/ \E w \in Workers : Render(w)
    \/ \E w \in Workers : Finish(w)

SpecConc == InitConc /\ [][NextConc]_vars

----------------------------------------------------------------------------
(* Vocabulary of the properties *)

\* str(n) for an int n
RECURSIVE NatStr(_)
NatStr(n) ==
    LET d == <<"0", "1", "2", "3", "4", "5", "6", "7", "8", "9">>[(n % 10) + 1]
    IN  IF n < 10 THEN <<d>> ELSE Append(NatStr(n \div 10), d)

PyStr(n) == IF n < 0 THEN <<"-">> \o NatStr(0 - n) ELSE NatStr(n)

\* text that is not numeric: it holds a character that is no digit, sign, blank or
\* underscore, or it holds no digit at all
NonNumeric(s) ==
    \/ \E i \in 1..Len(s) : s[i] \notin Digits \cup Whitespace \cup {"+", "-", "_"}
    \/ \A i \in 1..Len(s) : s[i] \notin Digits

Has(w, name) == name \in DOMAIN form[w]
IsPost(w) == method[w] = "POST"
IsNext(w) == Has(w, "action") /\ form[w]["action"] = NEXT
BadField(w, name) == Has(w, name) /\ NonNumeric(form[w][name])

\* the request was rendered
Rendered(w) == response[w] # <<>>
Ctx(w) == response[w][1]

\* the request ended with the conversion error of lines 31-37
ParseFailed(w) ==
    /\ pc[w] = "failed"
    /\ error[w] = "ValueError"
    /\ response[w] = <<>>
    /\ loc[w].users = <<>>
    /\ nconnect[w] = 0
    /\ calls[w] = <<>>
    /\ conn[w] = <<>>

\* the handler has gone past line 39
PastParsing(w) == pc[w] \notin {"idle", "received"}

OwnsOpenConn(w) == \E c \in open : owner[c] = <<w>>

SubmittedK == {2, 22, 222, 2222}

----------------------------------------------------------------------------
(* Properties *)

\* C1: a POST whose action is not the literal "next" (absent or any other value)
\* passes batch_index 0 to generate_fake_users and renders batch_index 0, whatever
\* batch_index was submitted.
C1_ResetWithoutNext ==
    \A w \in Workers :
        (IsPost(w) /\ ~IsNext(w)) =>
            /\ \A i \in 1..Len(calls[w]) : calls[w][i][4] = 0
            /\ Rendered(w) => Ctx(w).batch_index = 0
            /\ (PastParsing(w) /\ ~ParseFailed(w)) => loc[w].batch_index = 0

C1_Witness ==
    \E w \in Workers :
        /\ IsPost(w) /\ Has(w, "action") /\ form[w]["action"] = PREV
        /\ Has(w, "batch_index") /\ form[w]["batch_index"] = <<"2", "2">>
        /\ Rendered(w) /\ Len(calls[w]) = 1

\* C2: a POST with action "next" and a submitted batch_index that is the integer
\* k >= 0 passes k + 1 to generate_fake_users and renders k + 1.
C2_NextIncrements ==
    \A w \in Workers : \A k \in SubmittedK :
        (IsPost(w) /\ IsNext(w) /\ Has(w, "batch_index") /\ form[w]["batch_index"] = PyStr(k)) =>
            /\ \A i \in 1..Len(calls[w]) : calls[w][i][4] = k + 1
            /\ Rendered(w) => Ctx(w).batch_index = k + 1
            /\ (~Has(w, "seed") /\ ~Has(w, "batch_size")) => error[w] # "ValueError"

C2_Witness ==
    \E w \in Workers :
        /\ IsPost(w) /\ IsNext(w)
        /\ Has(w, "batch_index") /\ form[w]["batch_index"] = <<"2", "2">>
        /\ Rendered(w) /\ Ctx(w).batch_index = 23
        /\ calls[w] = <<<<EN_US, 123, 10, 23>>>>

\* C3: a GET, whatever requests came before it, opens no connection, runs no
\* query and is rendered with no rows and the defaults en_US, 123, 10, 0.
C3_GetDefaults ==
    \A w \in Workers :
        method[w] = "GET" =>
            /\ nconnect[w] = 0
            /\ calls[w] = <<>>
            /\ conn[w] = <<>>
            /\ ~OwnsOpenConn(w)
            /\ pc[w] # "failed"
            /\ Rendered(w) =>
                   Ctx(w) = [locale |-> EN_US, seed |-> 123, batch_size |-> 10,
                             batch_index |-> 0, users |-> <<>>]

C3_Witness ==
    \E w \in Workers :
        /\ method[w] = "GET"
        /\ dbFailed
        /\ Has(w, "seed") /\ Has(w, "locale")
        /\ Rendered(w)

\* C4: a POST whose seed is non-numeric text fails with no response and no rows,
\* before any connection is opened or any query is executed.
C4_BadSeedFails ==
    \A w \in Workers :
        (IsPost(w) /\ BadField(w, "seed") /\ pc[w] # "received") => ParseFailed(w)

C4_Witness ==
    \E w \in Workers :
        /\ IsPost(w) /\ Has(w, "seed") /\ form[w]["seed"] = <<"a", "2">>
        /\ ParseFailed(w)

\* C5 as stated: non-numeric text in seed, batch_size or batch_index fails the
\* request, whatever the action.
C5_AnyNumericFieldFails ==
    \A w \in Workers :
        (/\ IsPost(w)
         /\ pc[w] # "received"
         /\ \E n \in {"seed", "batch_size", "batch_index"} : BadField(w, n)) => ParseFailed(w)

\* C5 amended: non-numeric text in seed or batch_size fails the request whatever
\* the action; non-numeric text in batch_index fails it when the action is "next",
\* and is not converted (the request goes on to the database) for any other action.
C5_BatchIndexConvertedOnNext ==
    \A w \in Workers :
        (IsPost(w) /\ pc[w] # "received") =>
            /\ (BadField(w, "seed") \/ BadField(w, "batch_size")) => ParseFailed(w)
            /\ (BadField(w, "batch_index") /\ IsNext(w)) => ParseFailed(w)
            /\ (/\ BadField(w, "batch_index") /\ ~IsNext(w)
                /\ ~Has(w, "seed") /\ ~Has(w, "batch_size")) =>
                   /\ error[w] # "ValueError"
                   /\ loc[w].batch_index = 0

C5_Witness ==
    \E w \in Workers :
        /\ IsPost(w) /\ ~IsNext(w)
        /\ Has(w, "batch_index") /\ form[w]["batch_index"] = <<"a">>
        /\ Rendered(w) /\ Len(calls[w]) = 1

\* C6: the connection a POST opened is closed when the request has finished, on
\* the normal path and when cursor creation, the query or the fetch failed.
C6_ConnClosedAtEnd ==
    \A w \in Workers :
        pc[w] \in {"idle", "received", "connect", "render", "rendered", "failed"} =>
            ~OwnsOpenConn(w)

C6_Witness ==
    \E w \in Workers :
        /\ pc[w] = "failed" /\ error[w] = "DatabaseError"
        /\ nconnect[w] = 1 /\ Len(calls[w]) = 1
        /\ conn[w] # <<>> /\ ~OwnsOpenConn(w)

\* C7: a rendered POST has made exactly one generate_fake_users call, after
\* acquiring its connection and before rendering, with the four values that are
\* rendered; locale, seed and batch_size are the submitted values or the defaults.
C7_OneCallSameArgs ==
    \A w \in Workers :
        /\ Len(calls[w]) > 0 => (nconnect[w] = 1 /\ conn[w] # <<>>)
        /\ pc[w] \in {"cursor", "execute", "fetch", "exit"} => ~Rendered(w)
        /\ (IsPost(w) /\ Rendered(w)) =>
               /\ Len(calls[w]) = 1
               /\ calls[w][1] = <<Ctx(w).locale, Ctx(w).seed, Ctx(w).batch_size,
                                  Ctx(w).batch_index>>
               /\ Ctx(w).locale = IF Has(w, "locale") THEN form[w]["locale"] ELSE EN_US
               /\ IF Has(w, "seed") THEN form[w]["seed"] = PyStr(Ctx(w).seed)
                                    ELSE Ctx(w).seed = 123
               /\ IF Has(w, "batch_size") THEN form[w]["batch_size"] = PyStr(Ctx(w).batch_size)
                                          ELSE Ctx(w).batch_size = 10
               /\ Ctx(w).batch_index = loc[w].batch_index

C7_Witness ==
    \E w \in Workers :
        /\ IsPost(w) /\ Rendered(w)
        /\ calls[w] = <<<<FR_FR, 2, 22, 0>>>>
        /\ Ctx(w).users = <<"row1", "row2">>

\* C8: the batch_index passed to generate_fake_users and rendered is never
\* negative, and on "next" it is the submitted batch_index plus one.
C8_NeverNegative ==
    \A w \in Workers :
        /\ \A i \in 1..Len(calls[w]) : calls[w][i][4] >= 0
        /\ Rendered(w) => Ctx(w).batch_index >= 0
        /\ (Rendered(w) /\ IsPost(w) /\ IsNext(w) /\ Has(w, "batch_index")) =>
               form[w]["batch_index"] = PyStr(Ctx(w).batch_index - 1)

\* C9: a POST whose connection attempt or query failed ends failed, with no
\* response and no rows, after one connection attempt and at most one query; once
\* it is over the worker and the process are as they were before it.
C9_DbFailureNoRetry ==
    /\ \A w \in Workers :
           /\ nconnect[w] <= 1
           /\ Len(calls[w]) <= 1
           /\ (pc[w] = "failed" /\ error[w] = "DatabaseError") =>
                  /\ response[w] = <<>>
                  /\ loc[w].users = <<>>
                  /\ nconnect[w] = 1
                  /\ ~OwnsOpenConn(w)
           /\ pc[w] = "idle" =>
                  /\ method[w] = "none" /\ form[w] = EmptyForm /\ loc[w] = DefaultLocals
                  /\ conn[w] = <<>> /\ error[w] = "none" /\ response[w] = <<>>
                  /\ calls[w] = <<>> /\ nconnect[w] = 0
    /\ (\A w \in Workers : pc[w] = "idle") =>
           /\ open = {ModuleConn}
           /\ owner = [c \in AllConns |-> <<>>]
           /\ used = [c \in AllConns |-> {}]

C9_Witness ==
    \E w \in Workers :
        /\ dbFailed
        /\ IsPost(w) /\ Rendered(w)
        /\ Len(calls[w]) = 1 /\ Ctx(w).users # <<>>

\* C10: the connections open in the process are exactly those of the POST
\* requests between acquisition and release, one per request and used by that
\* request only; none is open while no request is in flight, and no query runs
\* on the module-level connection.
C10_OnlyRequestConnections ==
    LET InFlight == {w \in Workers : pc[w] \in {"cursor", "execute", "fetch", "exit"}}
    IN  /\ open = {conn[w][1] : w \in InFlight}
        /\ \A v, w \in InFlight : conn[v] = conn[w] => v = w
        /\ \A w \in InFlight : owner[conn[w][1]] = <<w>> /\ used[conn[w][1]] \subseteq {w}
        /\ used[ModuleConn] = {}

====
